---- MODULE Spec2Model ----
(***************************************************************************)
(* autosig.py: the System Implementation Guide generator.                  *)
(*                                                                         *)
(* The model covers the document-tree walker sections(), the acquisition   *)
(* wrappers execute_cmd() and execute_nmc(), the process runner execute()  *)
(* with its SIGALRM timeout, the Document sink and log().                  *)
(*                                                                         *)
(* Spec         one run of main() from the call sections([outline], 0)     *)
(*              on, for every outline, ignore toggle and collector mode    *)
(*              of the bounded input space.                                *)
(* SpecFair     Spec under weak fairness of its next-state relation.       *)
(* SpecCollector  one call execute_collector(location, timeout) on its own, *)
(*              for every timeout, with the alarm free to fire at any       *)
(*              point of execute().                                         *)
(***************************************************************************)
EXTENDS Integers, Sequences, FiniteSets, TLC

\* ------------------------------------------------------------------ bounds

\* Number of nodes of the section tree (the outline).
MaxNodes == 4
\* Largest timeout (seconds) execute() is called with; 0 stands for None.
MaxTimeout == 1

\* ------------------------------------------------------------------ inputs

Nodes == 1..MaxNodes

\* sections(): the key list of lines 492-493.
valid == {"title", "enabled", "paragraph", "cmd", "nmc", "sections", "collector"}

\* Seeded fault: "enabled" is left out of the required keys.
requiredTitleOnly == {"title"}

\* sections(): the key list of line 495.
required == {"title", "enabled"}

\* JSON null.
null == "null"
\* The value of a key the node does not carry (never read by the code).
absent == "absent"

\* One node of the configuration without its children: the keys present and
\* the values of the keys the walker reads.
NodeConf(keys, enabled, paragraph, cmd, nmc, coll) ==
    [keys |-> keys, enabled |-> enabled, paragraph |-> paragraph,
     cmd |-> cmd, nmc |-> nmc, collector |-> coll]

\* The node configurations the outlines are built from: a bare heading; a
\* paragraph with both commands; a paragraph with a collector path and null
\* commands; null values only; a disabled node with every key populated; an
\* unsupported key; a disabled node without title; a node without enabled.
Profiles ==
    { NodeConf({"title", "enabled"}, TRUE, absent, absent, absent, absent),
      NodeConf({"title", "enabled", "paragraph", "cmd", "nmc"},
               TRUE, "text", "cmdline", "nmcline", absent),
      NodeConf({"title", "enabled", "paragraph", "cmd", "nmc", "collector"},
               TRUE, "text", null, null, "path"),
      NodeConf({"title", "enabled", "cmd", "collector"},
               TRUE, absent, null, absent, null),
      NodeConf({"title", "enabled", "paragraph", "cmd", "nmc", "collector"},
               FALSE, "text", "cmdline", "nmcline", "path"),
      NodeConf({"title", "enabled", "cmd", "foo"},
               TRUE, absent, "cmdline", absent, absent),
      NodeConf({"enabled", "cmd"}, FALSE, absent, "cmdline", absent, absent),
      NodeConf({"title", "cmd"}, TRUE, absent, "cmdline", absent, absent) }

\* The tree shapes: node 1 is the root object of the configuration file, and
\* every other node hangs under a node of smaller number.
ParentMaps == { p \in [Nodes \ {1} -> Nodes] : \A n \in Nodes \ {1} : p[n] < n }

RECURSIVE SortedSeq(_)
SortedSeq(S) ==
    IF S = {} THEN <<>>
    ELSE LET m == CHOOSE x \in S : \A y \in S : x <= y
         IN  <<m>> \o SortedSeq(S \ {m})

\* The "sections" array of node n, in configuration order.
ChildrenOf(par, n) == SortedSeq({ m \in Nodes \ {1} : par[m] = n })

\* A node with its children: the "sections" key is present when the array is.
Section(conf, kids) ==
    [keys |-> IF kids = <<>> THEN conf.keys ELSE conf.keys \cup {"sections"},
     enabled |-> conf.enabled, paragraph |-> conf.paragraph, cmd |-> conf.cmd,
     nmc |-> conf.nmc, collector |-> conf.collector, sections |-> kids]

Outlines ==
    { [n \in Nodes |-> Section(prof[n], ChildrenOf(par, n))] :
        par \in ParentMaps, prof \in [Nodes -> Profiles] }

\* What a spawned process can write ("s" is a whitespace character, "x" is
\* not): nothing, whitespace only, bare text, text inside whitespace.
Stdouts == { <<>>, <<"s">>, <<"x">>, <<"s", "x", "s">> }
\* The exit statuses a process ends with.
ExitCodes == {0, 1}
\* Python's None as an output value.
None == <<"None">>

\* ------------------------------------------------------------------- state

VARIABLES
    outline,    \* the parsed configuration: node -> Section
    ignore,     \* global ignore: the -i toggle
    collector,  \* global collector: TRUE when a collector directory is given
    stack,      \* the activations of sections(): <<[section, i, level], ...>>
    pc,         \* where the innermost activation of sections() stands
    sig,        \* the Document: the writes made so far, in order
    logged,     \* what log() has printed, in order
    status,     \* "running", "complete", "exit" (sys.exit), "uncaught"
    exc,        \* the exception that ended the run uncaught, or "none"
    procs,      \* every process spawned so far: <<[kind, node, state, returncode], ...>>
    epc,        \* where execute() stands; "idle" when it is not running
    caller,     \* who called execute(): "cmd", "nmc" or "collector"
    timeout,    \* execute()'s timeout argument; 0 is None
    alarm,      \* TRUE while a SIGALRM is pending
    fired,      \* where execute() stood when the alarm fired, or "no"
    phandle,    \* execute()'s local phandle: 0 is unbound, else the process
    stdout,     \* execute()'s local stdout
    retcode,    \* execute()'s local retcode: -1 is unbound
    ret         \* how execute() ended: [kind, retcode, output, exc]

walker == <<stack, pc, sig, logged, status, exc>>
runner == <<procs, epc, caller, timeout, alarm, fired, phandle, stdout, retcode, ret>>
config == <<outline, ignore, collector>>
vars == <<outline, ignore, collector, stack, pc, sig, logged, status, exc,
          procs, epc, caller, timeout, alarm, fired, phandle, stdout, retcode, ret>>

\* ---------------------------------------------------------------- Document

\* One write of the Document, by the primitive that made it.
Write(op, n, level, src) == [op |-> op, node |-> n, level |-> level, src |-> src]

\* Seeded fault: the indent of a sub-section is off by one.
HeadingIndentOffByOne(n, level) ==
    IF level = 0 THEN Write("print_title", n, 0, "title")
    ELSE IF level = 1 THEN Write("print_section", n, 0, "title")
    ELSE Write("print_sub_section", n, level - 1, "title")

\* sections(), lines 518-523: the heading of a node visited at `level`.
Heading(n, level) ==
    IF level = 0 THEN Write("print_title", n, 0, "title")
    ELSE IF level = 1 THEN Write("print_section", n, 0, "title")
    ELSE Write("print_sub_section", n, level - 2, "title")

\* Seeded fault: the paragraph is written without the tests of lines 526-528.
ParagraphUnchecked(n, s) == <<Write("print_paragraph", n, 0, "paragraph")>>

\* sections(), lines 526-529: the static paragraph of a node.
Paragraph(n, s) ==
    IF "paragraph" \in s.keys /\ s.paragraph # null
    THEN <<Write("print_paragraph", n, 0, "paragraph")>>
    ELSE <<>>

\* Seeded fault: the output is written before the bracketed command line.
BodyOutputFirst(n, kind) ==
    << Write("print_paragraph", n, 0, kind),
       Write("print_string", n, 0, kind),
       Write("print_newline", n, 0, kind) >>

\* execute_cmd() lines 170-172, execute_nmc() lines 202-204: the bracketed
\* command line, a newline and the output.
Body(n, kind) ==
    << Write("print_string", n, 0, kind),
       Write("print_newline", n, 0, kind),
       Write("print_paragraph", n, 0, kind) >>

\* Seeded fault: every line is printed with the INFO tag.
LogAsInfo(severity, what, n) == [severity |-> "INFO", what |-> what, node |-> n]

\* log(): one printed line.
Log(severity, what, n) == [severity |-> severity, what |-> what, node |-> n]

\* --------------------------------------------------------- process runner

NoResult == [kind |-> "none", retcode |-> 0, output |-> None, exc |-> "none"]
Returned(rc, out) == [kind |-> "return", retcode |-> rc, output |-> out, exc |-> "none"]
Raised(e) == [kind |-> "raise", retcode |-> 0, output |-> None, exc |-> e]

Whitespace(c) == c = "s"

\* str.strip(): leading and trailing whitespace removed.
RECURSIVE lstrip(_)
lstrip(s) == IF s # <<>> /\ Whitespace(Head(s)) THEN lstrip(Tail(s)) ELSE s
RECURSIVE rstrip(_)
rstrip(s) ==
    IF s # <<>> /\ Whitespace(s[Len(s)]) THEN rstrip(SubSeq(s, 1, Len(s) - 1)) ELSE s
strip(s) == rstrip(lstrip(s))

\* execute(), lines 100-103: an empty stdout is None, any other is stripped.
Output(s) == IF s # <<>> THEN strip(s) ELSE None

\* execute(), lines 76-78: the alarm is armed when the timeout is truthy.
Armed(t) == t # 0

SetProc(p, st, rc) == [procs EXCEPT ![p].state = st, ![p].returncode = rc]

\* A call execute(cmd, timeout=t) by `who` for node n: lines 76-78.
ExecuteCall(who, t) ==
    /\ epc' = "popen"
    /\ caller' = who
    /\ timeout' = t
    /\ alarm' = Armed(t)
    /\ fired' = "no"
    /\ phandle' = 0
    /\ stdout' = <<>>
    /\ retcode' = -1
    /\ ret' = NoResult
    /\ UNCHANGED procs

\* The node the running command belongs to.
CmdNode == stack[Len(stack)].section[stack[Len(stack)].i]

\* execute(), lines 83-84: Popen spawns the shell and returns the handle.
Popen ==
    /\ epc = "popen"
    /\ procs' = Append(procs, [kind |-> caller, node |-> CmdNode,
                               state |-> "running", returncode |-> -1])
    /\ phandle' = Len(procs) + 1
    /\ epc' = "communicate"
    /\ UNCHANGED <<caller, timeout, alarm, fired, stdout, retcode, ret>>
    /\ UNCHANGED <<walker, config>>

\* execute(), lines 83-84 and 93-94: Popen fails (fork or exec of the shell
\* fails, or cmd is no command line) and the error is wrapped in Execute.
PopenFails ==
    /\ epc = "popen"
    /\ ret' = Raised("Execute")
    /\ epc' = "done"
    /\ UNCHANGED <<procs, caller, timeout, alarm, fired, phandle, stdout, retcode>>
    /\ UNCHANGED <<walker, config>>

\* execute()'s locals after it has returned or raised.
LocalsGone ==
    /\ phandle' = 0
    /\ stdout' = <<>>
    /\ retcode' = -1

\* execute(), line 87: communicate() returns once the process has exited; the
\* process chooses its output and exit status. With no alarm pending nothing
\* can interrupt lines 88-105, which run on to the return; with an alarm
\* pending each of them is a place where the handler can run.
Communicate ==
    /\ epc = "communicate"
    /\ \E rc \in ExitCodes, out \in Stdouts :
          /\ procs' = SetProc(phandle, "exited", rc)
          /\ IF alarm
             THEN /\ stdout' = out
                  /\ epc' = "retcode"
                  /\ UNCHANGED <<phandle, retcode, ret>>
             ELSE /\ ret' = Returned(rc, Output(out))
                  /\ epc' = "done"
                  /\ LocalsGone
    /\ UNCHANGED <<caller, timeout, alarm, fired>>
    /\ UNCHANGED <<walker, config>>

\* execute(), lines 87 and 93-94: communicate() fails (reading the pipe
\* fails) and the error is wrapped in Execute; the process is left running.
CommunicateFails ==
    /\ epc = "communicate"
    /\ ret' = Raised("Execute")
    /\ epc' = "done"
    /\ LocalsGone
    /\ UNCHANGED <<procs, caller, timeout, alarm, fired>>
    /\ UNCHANGED <<walker, config>>

\* execute(), line 88: retcode = phandle.returncode, the last statement of
\* the try body.
ReadRetcode ==
    /\ epc = "retcode"
    /\ retcode' = procs[phandle].returncode
    /\ epc' = "else"
    /\ UNCHANGED <<procs, caller, timeout, alarm, fired, phandle, stdout, ret>>
    /\ UNCHANGED <<walker, config>>

\* execute(), lines 95-105: signal.alarm(0), the output is normalised and
\* the pair is returned.
Finish ==
    /\ epc = "else"
    /\ alarm' = FALSE
    /\ ret' = Returned(retcode, Output(stdout))
    /\ epc' = "done"
    /\ LocalsGone
    /\ UNCHANGED <<procs, caller, timeout, fired>>
    /\ UNCHANGED <<walker, config>>

\* alarm_handler() raises Timeout in execute(), lines 59-60 and 89-92.
\*   in Popen:        phandle is unbound, so phandle.kill() raises
\*                    UnboundLocalError; the shell may already be forked.
\*   in communicate:  the process is killed and Timeout is raised.
\*   at line 88:      the process was reaped; kill() of its pid either fails
\*                    with OSError or hits nothing of this run.
\*   in the else:     no handler of the try applies; Timeout propagates.
AlarmFires ==
    /\ alarm
    /\ epc \in {"popen", "communicate", "retcode", "else"}
    /\ alarm' = FALSE
    /\ fired' = epc
    /\ epc' = "done"
    /\ \/ /\ epc = "popen"
          /\ ret' = Raised("UnboundLocalError")
          /\ \/ procs' = procs
             \/ procs' = Append(procs, [kind |-> caller, node |-> CmdNode,
                                        state |-> "running", returncode |-> -1])
       \/ /\ epc = "communicate"
          /\ procs' = SetProc(phandle, "killed", -9)
          /\ ret' = Raised("Timeout")
       \/ /\ epc = "retcode"
          /\ ret' \in {Raised("OSError"), Raised("Timeout")}
          /\ procs' = procs
       \/ /\ epc = "else"
          /\ ret' = Raised("Timeout")
          /\ procs' = procs
    /\ LocalsGone
    /\ UNCHANGED <<caller, timeout>>
    /\ UNCHANGED <<walker, config>>

\* execute() has ended and its caller has taken the result: the locals are gone.
\* A pending alarm stays pending.
ExecuteDone ==
    /\ epc' = "idle"
    /\ caller' = "none"
    /\ timeout' = 0
    /\ fired' = "no"
    /\ phandle' = 0
    /\ stdout' = <<>>
    /\ retcode' = -1
    /\ ret' = NoResult
    /\ UNCHANGED <<procs, alarm>>

\* ------------------------------------------------------------- tree walker

\* The innermost activation of sections() and the subsection it is at.
Cur == stack[Len(stack)]
CurNode == Cur.section[Cur.i]

\* The for loop of line 498 moves on to the next subsection.
Advance == [stack EXCEPT ![Len(stack)].i = @ + 1]

\* Seeded fault: unsupported keys are not rejected.
SchemaFaultRequiredOnly(s) ==
    IF ~(required \subseteq s.keys) THEN "required" ELSE "ok"

\* Seeded fault: the enabled test comes before the validation, so a disabled
\* node is never validated.
SchemaFaultEnabledOnly(s) ==
    IF ~s.enabled THEN "ok"
    ELSE IF ~(required \subseteq s.keys) THEN "required"
    ELSE IF ~(s.keys \subseteq valid) THEN "invalid"
    ELSE "ok"

\* sections(), lines 499-509: the required keys are checked first, then the
\* unsupported ones.
SchemaFault(s) ==
    IF ~(required \subseteq s.keys) THEN "required"
    ELSE IF ~(s.keys \subseteq valid) THEN "invalid"
    ELSE "ok"

\* Seeded fault: the enabled test is missing.
DisabledNever(s) == FALSE

\* sections(), line 512.
Disabled(s) == ~s.enabled

\* sections(), lines 541-543 and 547-549: the key is present and not null.
HasCmd(s) == "cmd" \in s.keys /\ s.cmd # null
HasNmc(s) == "nmc" \in s.keys /\ s.nmc # null

\* Seeded fault: only a negative status (death by signal) counts as failure.
FailedNegative(rc) == rc < 0

\* execute_cmd() line 164, execute_nmc() line 196: `if retcode:`.
Failed(rc) == rc # 0

\* execute_cmd() lines 160 and 167, execute_nmc() lines 192 and 199.
Fatal == ~ignore

\* Seeded fault: the recursion of line 554 is missing.
SectionsFlat(n) ==
    /\ stack' = Advance
    /\ pc' = "for"

\* Seeded fault: the children are walked last to first.
SectionsReversed(n) ==
    /\ stack' = IF "sections" \in outline[n].keys
                THEN LET q == outline[n].sections
                     IN  Append(stack, [section |-> [k \in 1..Len(q) |-> q[Len(q) + 1 - k]],
                                        i |-> 1, level |-> Cur.level + 1])
                ELSE Advance
    /\ pc' = "for"

\* sections(), lines 552-554: the children are walked one level deeper; with
\* no "sections" key the for loop moves on.
Sections(n) ==
    /\ stack' = IF "sections" \in outline[n].keys
                THEN Append(stack, [section |-> outline[n].sections, i |-> 1,
                                    level |-> Cur.level + 1])
                ELSE Advance
    /\ pc' = "for"

\* sections(), lines 547-554: nmc is run when it is populated. `idle` says
\* what becomes of the process runner when no command is run.
FromNmc(n, idle) ==
    IF HasNmc(outline[n])
    THEN /\ pc' = "execute_nmc"
         /\ ExecuteCall("nmc", 0)
         /\ UNCHANGED stack
    ELSE /\ Sections(n)
         /\ idle

\* sections(), lines 541-554: cmd is run when it is populated.
FromCmd(n, idle) ==
    IF HasCmd(outline[n])
    THEN /\ pc' = "execute_cmd"
         /\ ExecuteCall("cmd", 0)
         /\ UNCHANGED stack
    ELSE FromNmc(n, idle)

\* Seeded fault: the test of the collector root (line 532) is missing, so cmd
\* and nmc are run in collector mode too.
VisitIgnoringMode ==
    /\ status = "running"
    /\ pc = "for"
    /\ Cur.i <= Len(Cur.section)
    /\ LET n == CurNode
           s == outline[n]
       IN  IF SchemaFault(s) # "ok"
           THEN /\ logged' = Append(logged, Log("ERROR", SchemaFault(s), n))
                /\ status' = "exit"
                /\ UNCHANGED <<stack, pc, sig, exc, runner>>
           ELSE IF Disabled(s)
           THEN /\ stack' = Advance
                /\ UNCHANGED <<pc, sig, logged, status, exc, runner>>
           ELSE /\ sig' = Append(sig, Heading(n, Cur.level)) \o Paragraph(n, s)
                /\ logged' = Append(logged, Log("INFO", "section", n))
                /\ FromCmd(n, UNCHANGED runner)
                /\ UNCHANGED <<status, exc>>
    /\ UNCHANGED config

\* sections(), lines 498-554, up to the first call of execute(): one
\* subsection is validated, skipped when it is disabled, else its title and
\* its paragraph are written and its acquisition is started. In collector
\* mode the call execute_collector(location, document) of line 535 names a
\* variable `document` that the module never defines: evaluating the
\* arguments raises NameError, which nothing catches.
Visit ==
    /\ status = "running"
    /\ pc = "for"
    /\ Cur.i <= Len(Cur.section)
    /\ LET n == CurNode
           s == outline[n]
           info == Log("INFO", "section", n)
       IN  IF SchemaFault(s) # "ok"
           THEN /\ logged' = Append(logged, Log("ERROR", SchemaFault(s), n))
                /\ status' = "exit"
                /\ UNCHANGED <<stack, pc, sig, exc, runner>>
           ELSE IF Disabled(s)
           THEN /\ stack' = Advance
                /\ UNCHANGED <<pc, sig, logged, status, exc, runner>>
           ELSE /\ sig' = Append(sig, Heading(n, Cur.level)) \o Paragraph(n, s)
                /\ IF collector
                   THEN IF "collector" \in s.keys
                        THEN /\ logged' = Append(logged, info)
                             /\ status' = "uncaught"
                             /\ exc' = "NameError"
                             /\ UNCHANGED <<stack, pc, runner>>
                        ELSE /\ logged' = logged \o <<info, Log("WARN", "no_collector", n)>>
                             /\ Sections(n)
                             /\ UNCHANGED <<status, exc, runner>>
                   ELSE /\ logged' = Append(logged, info)
                        /\ FromCmd(n, UNCHANGED runner)
                        /\ UNCHANGED <<status, exc>>
    /\ UNCHANGED config

\* execute_cmd() lines 157-172 and execute_nmc() lines 189-204, from the
\* return of execute() on, and then sections() up to the next call of
\* execute() (`on`). After a fault with ignore set, line 164 (196) reads
\* retcode, which the failed assignment of line 156 (188) left unbound:
\* UnboundLocalError, which nothing catches.
AcquisitionReturn(kind, on) ==
    /\ status = "running"
    /\ epc = "done"
    /\ LET n == CurNode
           errors == <<Log("ERROR", kind, n), Log("ERROR", "output", n)>>
       IN  IF ret.kind = "raise"
           THEN /\ logged' = logged \o errors
                /\ IF Fatal
                   THEN status' = "exit" /\ exc' = exc
                   ELSE status' = "uncaught" /\ exc' = "UnboundLocalError"
                /\ ExecuteDone
                /\ UNCHANGED <<stack, pc, sig>>
           ELSE IF Failed(ret.retcode) /\ Fatal
           THEN /\ logged' = logged \o errors
                /\ status' = "exit"
                /\ ExecuteDone
                /\ UNCHANGED <<stack, pc, sig, exc>>
           ELSE /\ logged' = IF Failed(ret.retcode) THEN logged \o errors ELSE logged
                /\ sig' = sig \o Body(n, kind)
                /\ on
                /\ UNCHANGED <<status, exc>>
    /\ UNCHANGED config

\* Seeded fault: nmc is an alternative to cmd (`elif` at line 547), so it is
\* not run after a cmd.
ExecuteCmdReturnSkipsNmc ==
    /\ pc = "execute_cmd"
    /\ AcquisitionReturn("cmd", Sections(CurNode) /\ ExecuteDone)

\* execute_cmd(), lines 157-172, then sections(), lines 547-554.
ExecuteCmdReturn ==
    /\ pc = "execute_cmd"
    /\ AcquisitionReturn("cmd", FromNmc(CurNode, ExecuteDone))

\* execute_nmc(), lines 189-204, then sections(), lines 552-554.
ExecuteNmcReturn ==
    /\ pc = "execute_nmc"
    /\ AcquisitionReturn("nmc", Sections(CurNode) /\ ExecuteDone)

\* Seeded fault: back from the recursion of line 554 the caller's loop takes
\* the same subsection again.
ReturnToSameSubsection ==
    /\ status = "running"
    /\ pc = "for"
    /\ Cur.i > Len(Cur.section)
    /\ IF Len(stack) = 1
       THEN /\ stack' = <<>>
            /\ status' = "complete"
            /\ logged' = Append(logged, Log("INFO", "complete", 0))
       ELSE /\ stack' = SubSeq(stack, 1, Len(stack) - 1)
            /\ UNCHANGED <<status, logged>>
    /\ UNCHANGED <<pc, sig, exc, runner, config>>

\* The for loop of line 498 is exhausted: sections() returns to line 554 of
\* its caller, or to main(), which logs "Complete!" (lines 627-629).
Return ==
    /\ status = "running"
    /\ pc = "for"
    /\ Cur.i > Len(Cur.section)
    /\ IF Len(stack) = 1
       THEN /\ stack' = <<>>
            /\ status' = "complete"
            /\ logged' = Append(logged, Log("INFO", "complete", 0))
       ELSE /\ stack' = [SubSeq(stack, 1, Len(stack) - 1)
                            EXCEPT ![Len(stack) - 1].i = @ + 1]
            /\ UNCHANGED <<status, logged>>
    /\ UNCHANGED <<pc, sig, exc, runner, config>>

\* execute_collector(), lines 119-125: a null location is skipped, else the
\* file is read through execute() with the timeout given.
ExecuteCollectorCall ==
    /\ status = "running"
    /\ pc = "call"
    /\ IF outline[CurNode].collector = null
       THEN /\ pc' = "returned"
            /\ UNCHANGED runner
       ELSE /\ pc' = "execute_collector"
            /\ ExecuteCall("collector", timeout)
    /\ UNCHANGED <<stack, sig, logged, status, exc, config>>

\* execute_collector(), lines 126-141.
ExecuteCollectorReturn ==
    /\ pc = "execute_collector"
    /\ AcquisitionReturn("collector",
                         pc' = "returned" /\ ExecuteDone /\ UNCHANGED stack)

\* The exit status of the process: 0 after "Complete!", 1 after sys.exit(1)
\* and after an uncaught exception.
ExitStatus == IF status = "complete" THEN 0 ELSE 1

\* ----------------------------------------------------------- specifications

RunnerIdle ==
    /\ procs = <<>>
    /\ epc = "idle"
    /\ caller = "none"
    /\ timeout = 0
    /\ alarm = FALSE
    /\ fired = "no"
    /\ phandle = 0
    /\ stdout = <<>>
    /\ retcode = -1
    /\ ret = NoResult

\* main(), lines 619-627: the Document is open, the version line is written
\* and sections([outline], 0) is called.
Init ==
    /\ outline \in Outlines
    /\ ignore \in BOOLEAN
    /\ collector \in BOOLEAN
    /\ stack = <<[section |-> <<1>>, i |-> 1, level |-> 0]>>
    /\ pc = "for"
    /\ sig = <<Write("print_string", 0, 0, "version")>>
    /\ logged = <<Log("INFO", "writing", 0)>>
    /\ status = "running"
    /\ exc = "none"
    /\ RunnerIdle

Next ==
    \/ Visit
    \/ ExecuteCmdReturn
    \/ ExecuteNmcReturn
    \/ Return
    \/ Popen
    \/ PopenFails
    \/ Communicate
    \/ CommunicateFails

Spec == Init /\ [][Next]_vars

\* The run under fair scheduling: the interpreter goes on executing sections()
\* while it can, Popen returns, and every spawned process ends, so that
\* communicate() returns or fails.
SpecFair == Spec /\ WF_vars(Next)

\* A call execute_collector(location, timeout) on its own, for node 1 of a
\* one-level outline: the only caller that hands execute() a timeout.
InitCollector ==
    /\ \E location \in {null, "path"} :
          outline = [n \in Nodes |->
                        Section(NodeConf({"title", "enabled", "collector"}, TRUE,
                                         absent, absent, absent, location), <<>>)]
    /\ ignore \in BOOLEAN
    /\ collector = TRUE
    /\ stack = <<[section |-> <<1>>, i |-> 1, level |-> 0]>>
    /\ pc = "call"
    /\ sig = <<>>
    /\ logged = <<>>
    /\ status = "running"
    /\ exc = "none"
    /\ procs = <<>>
    /\ epc = "idle"
    /\ caller = "none"
    /\ timeout \in 0..MaxTimeout
    /\ alarm = FALSE
    /\ fired = "no"
    /\ phandle = 0
    /\ stdout = <<>>
    /\ retcode = -1
    /\ ret = NoResult

NextCollector ==
    \/ ExecuteCollectorCall
    \/ ExecuteCollectorReturn
    \/ Popen
    \/ PopenFails
    \/ Communicate
    \/ CommunicateFails
    \/ ReadRetcode
    \/ Finish
    \/ AlarmFires

SpecCollector == InitCollector /\ [][NextCollector]_vars

\* ------------------------------------------------- the outline, as a tree

\* The node whose "sections" array holds n; 0 for the root object.
ParentOf(n) ==
    LET ms == { m \in Nodes :
                  \E k \in DOMAIN outline[m].sections : outline[m].sections[k] = n }
    IN  IF ms = {} THEN 0 ELSE CHOOSE m \in ms : TRUE
Parents == [n \in Nodes |-> ParentOf(n)]

RECURSIVE AncestorsIn(_, _)
AncestorsIn(par, n) ==
    IF par[n] = 0 THEN {} ELSE {par[n]} \cup AncestorsIn(par, par[n])

\* Nesting depth from the synthetic top-level list [outline].
Depths == LET par == Parents IN [n \in Nodes |-> Cardinality(AncestorsIn(par, n))]

\* Document order: a node, then its subtrees in array order.
RECURSIVE PreorderOf(_)
PreorderOf(list) ==
    IF list = <<>> THEN <<>>
    ELSE <<Head(list)>> \o PreorderOf(outline[Head(list)].sections)
                        \o PreorderOf(Tail(list))

\* The place of each node in document order (0 for the version line).
Positions ==
    LET pre == PreorderOf(<<1>>)
    IN  [n \in 0..MaxNodes |-> IF n = 0 THEN 0 ELSE CHOOSE k \in DOMAIN pre : pre[k] = n]

\* n carries "enabled": false / "enabled": true.
NodeDisabled(n) == "enabled" \in outline[n].keys /\ ~outline[n].enabled
NodeEnabled(n) == "enabled" \in outline[n].keys /\ outline[n].enabled

\* The nodes that lie under a disabled node.
HiddenNodes ==
    LET par == Parents IN { n \in Nodes : \E a \in AncestorsIn(par, n) : NodeDisabled(a) }

\* n lacks a required key or carries an unrecognised one.
ViolatesSchema(n) ==
    \/ "title" \notin outline[n].keys
    \/ "enabled" \notin outline[n].keys
    \/ \E k \in outline[n].keys :
          k \notin {"title", "enabled", "paragraph", "cmd", "nmc", "sections", "collector"}

IsHeading(w) == w.op \in {"print_title", "print_section", "print_sub_section"}

\* The writes of node n, and its headings.
WritesOf(n) == { i \in DOMAIN sig : sig[i].node = n }
HeadingsOf(n) == { i \in DOMAIN sig : sig[i].node = n /\ IsHeading(sig[i]) }

\* ---------------------------------------------------------------- claims

\* C1: a node whose enabled is false, and every descendant of it, produces no
\* output: no heading, no body, and no command or collector read is run for
\* it, whatever the ignore toggle and the collector mode.
C1_DisabledSubtreeSilent ==
    LET hidden == HiddenNodes
    IN  /\ \A i \in DOMAIN sig :
              sig[i].node = 0 \/ (~NodeDisabled(sig[i].node) /\ sig[i].node \notin hidden)
        /\ \A p \in DOMAIN procs :
              ~NodeDisabled(procs[p].node) /\ procs[p].node \notin hidden

\* A completed run over a disabled node with an enabled child that has
\* commands, the disabled node's next sibling having been rendered.
C1_Witness ==
    /\ status = "complete"
    /\ \E n, c, m \in Nodes :
          /\ NodeDisabled(n)
          /\ ParentOf(c) = n
          /\ NodeEnabled(c)
          /\ ~ViolatesSchema(c)
          /\ outline[c].cmd = "cmdline"
          /\ ParentOf(m) = ParentOf(n)
          /\ m > n
          /\ WritesOf(m) # {}

\* C2: when the walk completes, every enabled node that is not under a
\* disabled node has exactly one heading in the document, and no other
\* heading is there.
C2_HeadingPerEnabledNode ==
    status = "complete" =>
        LET hidden == HiddenNodes
        IN  /\ \A n \in Nodes :
                  Cardinality(HeadingsOf(n)) =
                      IF NodeEnabled(n) /\ n \notin hidden THEN 1 ELSE 0
            /\ \A i \in DOMAIN sig : IsHeading(sig[i]) => sig[i].node \in Nodes

\* A completed run with two headings, and an enabled node left out because
\* it is under a disabled one.
C2_Witness ==
    /\ status = "complete"
    /\ Cardinality({ n \in Nodes : HeadingsOf(n) # {} }) = 2
    /\ \E n \in HiddenNodes : NodeEnabled(n)

\* C3: the rank of every heading is decided by the node's nesting depth
\* alone: depth 0 is a document title, depth 1 a section, depth d >= 2 a
\* sub-section of indent d - 2 (so no order of the siblings changes it).
C3_RankByDepth ==
    LET depth == Depths
    IN  \A i \in DOMAIN sig :
            IsHeading(sig[i]) =>
                LET d == depth[sig[i].node]
                IN  /\ d = 0 => sig[i].op = "print_title"
                    /\ d = 1 => sig[i].op = "print_section"
                    /\ d >= 2 => sig[i].op = "print_sub_section" /\ sig[i].level = d - 2

\* A document with a title, a section, a sub-section of indent 0 and one of
\* indent 1.
C3_Witness ==
    /\ \E i \in DOMAIN sig : sig[i].op = "print_title"
    /\ \E i \in DOMAIN sig : sig[i].op = "print_section"
    /\ \E i \in DOMAIN sig : sig[i].op = "print_sub_section" /\ sig[i].level = 0
    /\ \E i \in DOMAIN sig : sig[i].op = "print_sub_section" /\ sig[i].level = 1

\* C4: the document is in pre-order: a node's heading comes before its body,
\* its body before everything of its children, and everything of a node and
\* its descendants before anything of its next sibling. Said of each write
\* and the one before it: the write is of the same node and not a heading,
\* or it is the heading of a node later in document order.
C4_PreOrder ==
    LET pos == Positions
    IN  \A j \in DOMAIN sig :
            j > 1 =>
                \/ sig[j].node = sig[j - 1].node /\ ~IsHeading(sig[j])
                \/ pos[sig[j - 1].node] < pos[sig[j].node] /\ IsHeading(sig[j])

\* A node with a command body and a rendered child, followed by its rendered
\* next sibling.
C4_Witness ==
    \E i, j, k \in DOMAIN sig :
        /\ i < j
        /\ j < k
        /\ sig[i].src = "cmd"
        /\ sig[i].op = "print_paragraph"
        /\ IsHeading(sig[j])
        /\ IsHeading(sig[k])
        /\ ParentOf(sig[j].node) = sig[i].node
        /\ ParentOf(sig[k].node) = ParentOf(sig[i].node)

\* The last line log() printed.
LastLog == logged[Len(logged)]

\* The walker stands at a subsection it has not validated yet.
AtSubsection ==
    /\ status = "running"
    /\ pc = "for"
    /\ stack # <<>>
    /\ Cur.i <= Len(Cur.section)

\* The run was ended by the schema check of node n.
SchemaAbortAt(n) ==
    /\ status = "exit"
    /\ LastLog.severity = "ERROR"
    /\ LastLog.what \in {"required", "invalid"}
    /\ LastLog.node = n

\* C5: when a cmd, nmc or collector-read command has exited with a nonzero
\* status, the next step logs an ERROR for its node; then with ignore unset
\* the run ends by sys.exit(1) with nothing more written or run, and with
\* ignore set the run goes on: with the node's nmc after its cmd, else into
\* the node's children, else to the next sibling.
C5_NonzeroExitPolicy ==
    [][ (epc = "done" /\ ret.kind = "return" /\ ret.retcode # 0) =>
            LET n == CmdNode
            IN  /\ Len(logged') > Len(logged)
                /\ logged'[Len(logged) + 1].severity = "ERROR"
                /\ logged'[Len(logged) + 1].node = n
                /\ IF ignore
                   THEN /\ status' = "running"
                        /\ \/ /\ pc = "execute_cmd"
                              /\ outline[n].nmc = "nmcline"
                              /\ pc' = "execute_nmc"
                              /\ stack' = stack
                           \/ /\ pc' = "for"
                              /\ outline[n].sections # <<>>
                              /\ Len(stack') = Len(stack) + 1
                              /\ stack'[Len(stack')].section = outline[n].sections
                              /\ stack'[Len(stack')].i = 1
                           \/ /\ pc' = "for"
                              /\ outline[n].sections = <<>>
                              /\ Len(stack') = Len(stack)
                              /\ stack'[Len(stack)].i = stack[Len(stack)].i + 1
                   ELSE /\ status' = "exit"
                        /\ sig' = sig
                        /\ procs' = procs ]_vars

\* With ignore set, a command of a node has exited with status 1, the ERROR
\* is logged, and a child of the node has been rendered since.
C5_Witness ==
    /\ ignore
    /\ \E p \in DOMAIN procs, c \in Nodes :
          /\ procs[p].returncode = 1
          /\ ParentOf(c) = procs[p].node
          /\ WritesOf(c) # {}
          /\ \E k \in DOMAIN logged :
                logged[k].severity = "ERROR" /\ logged[k].node = procs[p].node

\* C6: when execute() raises a fault (Timeout, or Execute for a failure to
\* spawn or to communicate) and ignore is set, the next step logs an ERROR
\* and the run is not ended by the fault: the walker goes on.
C6_FaultIgnored ==
    [][ (epc = "done" /\ ret.kind = "raise" /\ ignore /\ status = "running") =>
            /\ Len(logged') > Len(logged)
            /\ logged'[Len(logged) + 1].severity = "ERROR"
            /\ status' = "running" ]_vars

\* C7: when the alarm fires before a call of execute() with a timeout has
\* returned, the call ends by raising Timeout, never by returning a result,
\* and no process the call spawned is left running by then: it has been
\* killed, unless it had exited by itself already.
C7_TimeoutFault ==
    (epc = "done" /\ fired # "no") =>
        /\ ret.kind = "raise"
        /\ ret.exc = "Timeout"
        /\ \A p \in DOMAIN procs : procs[p].state \in {"killed", "exited"}

\* C8: when the walker comes to a node, enabled or disabled, that lacks title
\* or enabled or carries an unrecognised key, the next step ends the run by
\* sys.exit(1) whatever the ignore toggle, with nothing written and nothing
\* run for that node; and after the exit nothing is written or run at all.
C8_SchemaAbort ==
    [][ /\ (AtSubsection /\ ViolatesSchema(CurNode)) =>
              /\ status' = "exit"
              /\ sig' = sig
              /\ procs' = procs
              /\ epc' = "idle"
        /\ status # "exit" ]_vars

\* With ignore set, the run was ended at a disabled node without title, after
\* other nodes had been rendered.
C8_Witness ==
    /\ ignore
    /\ Len(sig) > 2
    /\ \E n \in Nodes :
          /\ SchemaAbortAt(n)
          /\ NodeDisabled(n)
          /\ "title" \notin outline[n].keys

\* C9, as claimed: when the schema check ends the run, no heading or body of
\* any node is in the document.
C9_NoOutputAtAbort ==
    (\E n \in Nodes : SchemaAbortAt(n)) => \A i \in DOMAIN sig : sig[i].node = 0

\* C9, amended: a node that violates the schema and is not under a disabled
\* node lets nothing of itself and nothing of any node after it in document
\* order into the document, and no command of them is run; what the nodes
\* before it produced is written.
C9_NoOutputFromViolationOn ==
    LET hidden == HiddenNodes
        pos == Positions
    IN  \A n \in Nodes :
            (ViolatesSchema(n) /\ n \notin hidden) =>
                /\ \A i \in DOMAIN sig : pos[sig[i].node] < pos[n]
                /\ \A p \in DOMAIN procs : pos[procs[p].node] < pos[n]

\* The schema check ended the run at a node after the command body of an
\* earlier node was written.
C9_Witness ==
    \E n \in Nodes :
        /\ SchemaAbortAt(n)
        /\ \E i \in DOMAIN sig : sig[i].src = "nmc" /\ sig[i].op = "print_paragraph"

\* C10, as claimed: an outline with a schema-violating node anywhere in it
\* never completes.
C10_ViolationNeverCompletes ==
    (\E n \in Nodes : ViolatesSchema(n)) => status # "complete"

\* C10, amended: an outline with a schema-violating node that is not under a
\* disabled node never completes: every run on it that ends, ends with a
\* nonzero exit status, whatever the ignore toggle.
C10_ReachableViolationNeverCompletes ==
    (\E n \in Nodes \ HiddenNodes : ViolatesSchema(n)) =>
        /\ status # "complete"
        /\ status # "running" => ExitStatus = 1

\* With ignore set, a run ended with exit status 1 at an unsupported key two
\* levels below the root.
C10_Witness ==
    /\ ignore
    /\ ExitStatus = 1
    /\ \E n \in Nodes :
          /\ SchemaAbortAt(n)
          /\ "foo" \in outline[n].keys
          /\ Depths[n] >= 2

\* The walker stands at an enabled subsection that passes the schema check.
AtEnabledSubsection ==
    /\ AtSubsection
    /\ ~ViolatesSchema(CurNode)
    /\ NodeEnabled(CurNode)

\* The walker has gone on from node n: into its children when it has any,
\* else to the next subsection of the list it is walking.
WalkerGoesOn(n) ==
    /\ status' = "running"
    /\ pc' = "for"
    /\ IF outline[n].sections # <<>>
       THEN /\ Len(stack') = Len(stack) + 1
            /\ stack'[Len(stack')].section = outline[n].sections
            /\ stack'[Len(stack')].i = 1
       ELSE /\ Len(stack') = Len(stack)
            /\ stack'[Len(stack)].i = stack[Len(stack)].i + 1

\* C11: in collector mode with ignore set, an enabled section with a
\* configured collector path has its heading rendered and its file read
\* through the process runner; when that read fails (the runner raises, or
\* cat exits with a nonzero status) an ERROR is logged, no body is written
\* for the section and the run goes on.
C11_CollectorFaultIgnored ==
    [][ /\ (collector /\ ignore /\ AtEnabledSubsection
             /\ outline[CurNode].collector = "path") =>
              /\ \E i \in DOMAIN sig' :
                    i > Len(sig) /\ IsHeading(sig'[i]) /\ sig'[i].node = CurNode
              /\ status' = "running"
              /\ epc' = "popen"
              /\ caller' = "collector"
        /\ (collector /\ ignore /\ status = "running" /\ epc = "done"
             /\ caller = "collector"
             /\ (ret.kind = "raise" \/ ret.retcode # 0)) =>
              /\ Len(logged') > Len(logged)
              /\ logged'[Len(logged) + 1].severity = "ERROR"
              /\ sig' = sig
              /\ status' = "running" ]_vars

\* C12: in collector mode an enabled section whose collector key is null
\* renders its heading only, runs no command, raises no fault, and the walk
\* goes on into its children or to its next sibling.
C12_NullCollectorNoOp ==
    [][ (collector /\ AtEnabledSubsection
         /\ "collector" \in outline[CurNode].keys
         /\ outline[CurNode].collector = null) =>
            /\ Len(sig') = Len(sig) + 1
            /\ IsHeading(sig'[Len(sig')])
            /\ sig'[Len(sig')].node = CurNode
            /\ procs' = procs
            /\ epc' = "idle"
            /\ exc' = "none"
            /\ WalkerGoesOn(CurNode) ]_vars

\* n carries title and enabled and no body key (it may have children).
BareNode(n) == outline[n].keys \ {"sections"} = {"title", "enabled"}

\* C13: an enabled section with only title and enabled renders exactly its
\* heading and no body content, in collector and in non-collector mode, and
\* no command is run for it: nothing but one heading is ever written for it,
\* and a completed walk that reached it has written that heading.
C13_BareSectionHeadingOnly ==
    LET hidden == HiddenNodes
    IN  \A n \in Nodes :
            (BareNode(n) /\ outline[n].enabled) =>
                /\ \A i \in WritesOf(n) : IsHeading(sig[i])
                /\ Cardinality(WritesOf(n)) <= 1
                /\ \A p \in DOMAIN procs : procs[p].node # n
                /\ (status = "complete" /\ n \notin hidden) => WritesOf(n) # {}

\* A completed walk in collector mode that rendered a bare section with a
\* child, and the child.
C13_Witness ==
    /\ collector
    /\ status = "complete"
    /\ \E n, c \in Nodes :
          /\ BareNode(n)
          /\ ParentOf(c) = n
          /\ WritesOf(n) # {}
          /\ WritesOf(c) # {}

\* q is an initial part of r.
IsPrefix(q, r) == Len(q) <= Len(r) /\ \A i \in DOMAIN q : q[i] = r[i]

\* One record of the report.
Row(op, n, level, src) == [op |-> op, node |-> n, level |-> level, src |-> src]

\* The three rows of an acquired body.
BodyRows(n, src) ==
    <<Row("print_string", n, 0, src), Row("print_newline", n, 0, src),
      Row("print_paragraph", n, 0, src)>>

\* What an enabled node at depth d contributes to the report when each of
\* its acquisitions succeeds: its heading, its paragraph, and the bodies of
\* the acquisitions of the run's mode, in the order of lines 515-550.
RowsOf(n, d) ==
    LET s == outline[n]
        has(k, v) == k \in s.keys /\ v # null
    IN  << IF d = 0 THEN Row("print_title", n, 0, "title")
           ELSE IF d = 1 THEN Row("print_section", n, 0, "title")
           ELSE Row("print_sub_section", n, d - 2, "title") >>
        \o (IF has("paragraph", s.paragraph)
            THEN <<Row("print_paragraph", n, 0, "paragraph")>> ELSE <<>>)
        \o (IF collector
            THEN (IF has("collector", s.collector) THEN BodyRows(n, "collector") ELSE <<>>)
            ELSE (IF has("cmd", s.cmd) THEN BodyRows(n, "cmd") ELSE <<>>)
                 \o (IF has("nmc", s.nmc) THEN BodyRows(n, "nmc") ELSE <<>>))

RECURSIVE RowsFrom(_, _, _, _)
RowsFrom(pre, k, depth, shown) ==
    IF k > Len(pre) THEN <<>>
    ELSE (IF pre[k] \in shown THEN RowsOf(pre[k], depth[pre[k]]) ELSE <<>>)
         \o RowsFrom(pre, k + 1, depth, shown)

\* The report the outline yields when every acquisition succeeds: the
\* version line, then the rows of every enabled node that is not under a
\* disabled node, in document order, up to the first node that fails the
\* schema check.
FullReport ==
    LET pos == Positions
        hidden == HiddenNodes
        bad == { n \in Nodes \ hidden : ViolatesSchema(n) }
        shown == { n \in Nodes \ hidden :
                     /\ NodeEnabled(n)
                     /\ \A b \in bad : pos[n] < pos[b] }
    IN  <<Row("print_string", 0, 0, "version")>>
        \o RowsFrom(PreorderOf(<<1>>), 1, Depths, shown)

\* C14: the document only grows, and when the run is ended by sys.exit(1) at
\* some node the exit status is 1 and the document is an initial part of the
\* report of the fault-free run that holds every row of the nodes before
\* that node and no row of a node after it.
C14_TruncatedReportIsPrefix ==
    [][ /\ IsPrefix(sig, sig')
        /\ (status = "running" /\ status' = "exit") =>
              LET pos == Positions
                  full == FullReport
                  n == CurNode
              IN  /\ ExitStatus' = 1
                  /\ IsPrefix(sig', full)
                  /\ \A i \in DOMAIN full :
                        pos[full[i].node] < pos[n] => i <= Len(sig')
                  /\ \A i \in DOMAIN sig' : pos[sig'[i].node] <= pos[n] ]_vars

\* With ignore unset, the run was ended by a failed nmc command of a node
\* whose cmd body was written, after an earlier section was rendered.
C14_Witness ==
    /\ ~ignore
    /\ status = "exit"
    /\ LastLog.severity = "ERROR"
    /\ \E n, m \in Nodes :
          /\ n # m
          /\ \E p \in DOMAIN procs :
                procs[p].node = n /\ procs[p].kind = "nmc" /\ procs[p].returncode = 1
          /\ \E i \in WritesOf(n) : sig[i].src = "cmd"
          /\ \E i, j \in DOMAIN sig : i < j /\ sig[i].node = m /\ sig[j].node = n

\* The body keys of n that are present and not null.
Populated(n) ==
    { k \in {"paragraph", "cmd", "nmc", "collector"} :
        /\ k \in outline[n].keys
        /\ \/ k = "paragraph" /\ outline[n].paragraph # null
           \/ k = "cmd" /\ outline[n].cmd # null
           \/ k = "nmc" /\ outline[n].nmc # null
           \/ k = "collector" /\ outline[n].collector # null }

\* The rows written for node n, in the order written.
RowsWrittenOf(n) == LET of(w) == w.node = n IN SelectSeq(sig, of)

\* C15, as claimed: when the walk completes, a rendered section with more
\* than one body key populated has a body row for each of them, whatever the
\* run mode.
C15_AllPopulatedKeysRender ==
    status = "complete" =>
        \A n \in Nodes :
            (WritesOf(n) # {} /\ Cardinality(Populated(n)) > 1) =>
                \A k \in Populated(n) : \E i \in WritesOf(n) : sig[i].src = k

\* C15, amended: the rows of a section with more than one body key populated
\* are always an initial part of: its heading, its paragraph, and in
\* non-collector mode the body of its cmd and then of its nmc, each when
\* populated; when the walk completes they are all of that. The collector
\* key is not rendered in non-collector mode, cmd and nmc are not rendered in
\* collector mode.
C15_ModeKeysRenderInOrder ==
    LET depth == Depths
    IN  \A n \in Nodes :
            (WritesOf(n) # {} /\ Cardinality(Populated(n)) > 1) =>
                LET rows ==
                        << IF depth[n] = 0 THEN Row("print_title", n, 0, "title")
                           ELSE IF depth[n] = 1 THEN Row("print_section", n, 0, "title")
                           ELSE Row("print_sub_section", n, depth[n] - 2, "title") >>
                        \o (IF "paragraph" \in Populated(n)
                            THEN <<Row("print_paragraph", n, 0, "paragraph")>> ELSE <<>>)
                        \o (IF ~collector /\ "cmd" \in Populated(n)
                            THEN BodyRows(n, "cmd") ELSE <<>>)
                        \o (IF ~collector /\ "nmc" \in Populated(n)
                            THEN BodyRows(n, "nmc") ELSE <<>>)
                IN  /\ IsPrefix(RowsWrittenOf(n), rows)
                    /\ status = "complete" => RowsWrittenOf(n) = rows

\* A completed walk without a collector root that rendered a section with
\* paragraph, cmd and nmc, and a section with a paragraph and a collector path.
C15_Witness ==
    /\ ~collector
    /\ status = "complete"
    /\ \E n, m \in Nodes :
          /\ Populated(n) = {"paragraph", "cmd", "nmc"}
          /\ \E i \in WritesOf(n) : sig[i].src = "nmc"
          /\ Populated(m) = {"paragraph", "collector"}
          /\ WritesOf(m) # {}

\* C16: every step that ends the run by sys.exit(1) during the walk, for a
\* schema violation or for an acquisition fault that is not ignored, first
\* logs at least one ERROR line for the fault at the node the walker is at:
\* the lines the step adds to the log start with an ERROR for that node
\* naming the fault.
C16_ErrorLoggedBeforeExit ==
    [][ (status = "running" /\ status' = "exit") =>
            /\ Len(logged') > Len(logged)
            /\ SubSeq(logged', 1, Len(logged)) = logged
            /\ logged'[Len(logged) + 1].severity = "ERROR"
            /\ logged'[Len(logged) + 1].node = CurNode
            /\ IF epc = "done"
               THEN logged'[Len(logged) + 1].what \in {"cmd", "nmc", "collector"}
               ELSE /\ ViolatesSchema(CurNode)
                    /\ logged'[Len(logged) + 1].what \in {"required", "invalid"} ]_vars

\* With ignore unset, the run was ended because a command could not be
\* spawned, after a section without commands was rendered.
C16_Witness ==
    /\ ~ignore
    /\ status = "exit"
    /\ procs = <<>>
    /\ Len(sig) > 2
    /\ LastLog.severity = "ERROR"
    /\ LastLog.what = "output"

\* C17: whatever execute() returns as output is trimmed of whitespace at
\* both ends, and an output that is empty after trimming is returned as
\* None, never as the empty string.
C17_EmptyOutputIsNone ==
    (epc = "done" /\ ret.kind = "return") =>
        \/ ret.output = <<"None">>
        \/ /\ ret.output # <<>>
           /\ ret.output[1] # "s"
           /\ ret.output[Len(ret.output)] # "s"

\* The commands that are running.
InFlight == { p \in DOMAIN procs : procs[p].state = "running" }

\* The visits of node n that left a line in the log.
VisitsOf(n) ==
    { k \in DOMAIN logged :
        logged[k].node = n /\ logged[k].what \in {"section", "required", "invalid"} }

\* C18: with every spawned process ending, the run ends (the walk completes,
\* or the process exits with status 1); all along, no node is visited twice
\* (one log line of its visit, one heading, one run of each of its commands
\* at most) and at most one command is in flight.
C18_TerminatesOneAtATime ==
    /\ <>(status # "running")
    /\ [](/\ Cardinality(InFlight) <= 1
          /\ \A n \in Nodes :
                /\ Cardinality(VisitsOf(n)) <= 1
                /\ Cardinality(HeadingsOf(n)) <= 1
                /\ \A p, q \in DOMAIN procs :
                      (procs[p].node = n /\ procs[q].node = n
                       /\ procs[p].kind = procs[q].kind) => p = q)

\* A completed walk in which four commands have run to their end, one after
\* the other.
C18_Witness ==
    /\ status = "complete"
    /\ Len(procs) >= 4
    /\ \A p \in DOMAIN procs : procs[p].state = "exited"

\* C19: with a collector root no cmd and no nmc command of any section is
\* ever started, run or rendered, and without one no collector path is ever
\* read or rendered.
C19_ModeExclusive ==
    LET kinds == IF collector THEN {"collector"} ELSE {"cmd", "nmc"}
    IN  /\ \A p \in DOMAIN procs : procs[p].kind \in kinds
        /\ epc # "idle" => caller \in kinds
        /\ \A i \in DOMAIN sig :
              sig[i].src \in {"cmd", "nmc", "collector"} => sig[i].src \in kinds

\* A completed walk with a collector root that rendered a section whose cmd
\* and nmc are populated.
C19_Witness ==
    /\ collector
    /\ status = "complete"
    /\ \E n \in Nodes :
          /\ {"cmd", "nmc"} \subseteq Populated(n)
          /\ WritesOf(n) # {}

\* C20: once a call of execute() has ended, by returning or by raising
\* Timeout or Execute, no alarm is pending: neither when the call has just
\* ended nor at any later step of its caller.
C20_NoAlarmAfterCall ==
    (epc \in {"done", "idle"}) => ~alarm

====
